---- MODULE Spec2Model ----
(***************************************************************************)
(* Model of coreutils_core::os::utmpx: the UtmpxKind <-> integer codec,    *)
(* the normalisation of a raw utmpx record into a Utmpx entry, and the     *)
(* construction of a UtmpxSet (system / from_file); and of the line filter  *)
(* of unexpand, Unexpand::unexpand_line.                                   *)
(***************************************************************************)
EXTENDS Integers, Sequences, FiniteSets, TLC

VARIABLES
    \* ---- codec (TryFrom<$t> for UtmpxKind, TryFrom<UtmpxKind> for $t) ----
    cOs,        \* target_os the crate was built for
    cTy,        \* the integer type $t of the macro instance in use
    cStep,      \* which conversions have been applied so far
    cNum,       \* the integer handed to / returned by a conversion
    cKind,      \* the UtmpxKind handed to / returned by a conversion
    cToKind,    \* last result of TryFrom<$t> for UtmpxKind
    cToCode,    \* last result of TryFrom<UtmpxKind> for $t
    \* ---- normalisation (impl From<utmpx> for Utmpx) ----
    nOs,        \* target_os the crate was built for
    nRaw,       \* the raw utmpx record handed to Utmpx::from_c_utmpx
    nStep,      \* "raw", "normalized" or "panicked"
    nEntry,     \* the Utmpx built from nRaw
    \* ---- construction of a UtmpxSet (system, from_file) ----
    targetOs,   \* target_os the crate was built for
    db,         \* records of the system's default accounting database
    file,       \* records of the accounting file the caller's paths name
    extra,      \* bytes of a partial record at the end of that file
    utName,     \* libc: the database file the process-wide cursor is set to
    utOpen,     \* libc: the cursor holds the database open
    utPos,      \* libc: records of the open database already returned
    pc,         \* "idle", "loop" (live cursor), "flat" (flat file), "crashed"
    call,       \* the constructor call in progress or last finished: the
                \* constructor, its path and what utmpxname returned to it
    set,        \* the HashSet<Utmpx> the call builds
    fetched,    \* the raw records the call has taken from its source
    vec,        \* flat file: the records of the buffer not yet consumed
    oob,        \* flat file: bytes read_exact stored past the Vec's allocation
    ended,      \* the call has called endutxent
    result,     \* what the last finished call gave its caller
    ncalls,     \* constructor calls made so far
    \* ---- unexpand: Unexpand::unexpand_line ----
    uAll,       \* self.all
    uLine,      \* the bytes of `line`
    uIdx,       \* bytes of the line the loop has taken
    uSpaces,    \* spaces
    uColumn,    \* column
    uConvert,   \* convert
    uOut,       \* the bytes written to self.output
    uWrapped,   \* an addition or subtraction on a counter left the range of usize
    uPc         \* "loop", or "done" once the line is flushed; "off" elsewhere

codecVars == <<cOs, cTy, cStep, cNum, cKind, cToKind, cToCode>>
normVars == <<nOs, nRaw, nStep, nEntry>>
envVars == <<targetOs, db, file, extra>>
cursorVars == <<utName, utOpen, utPos>>
callVars == <<pc, call, set, fetched, vec, oob, ended, result, ncalls>>
setVars == <<targetOs, db, file, extra, utName, utOpen, utPos,
             pc, call, set, fetched, vec, oob, ended, result, ncalls>>

unexpVars == <<uAll, uLine, uIdx, uSpaces, uColumn, uConvert, uOut, uWrapped,
               uPc>>

vars == <<cOs, cTy, cStep, cNum, cKind, cToKind, cToCode,
          nOs, nRaw, nStep, nEntry,
          targetOs, db, file, extra, utName, utOpen, utPos,
          pc, call, set, fetched, vec, oob, ended, result, ncalls,
          uAll, uLine, uIdx, uSpaces, uColumn, uConvert, uOut, uWrapped, uPc>>

----------------------------------------------------------------------------
\* Bounds of the model

\* integers of the types wider than 8 bits are sampled in -WideSample..WideSample
WideSample == 40

\* length of the fixed-size character arrays of a raw record (ut_user, ut_host,
\* ut_id, ut_line) in the model
ArrLen == 3

\* most records the default database and the accounting file hold together
MaxRecords == 2

\* size of one raw record in bytes, standing for mem::size_of::<utmpx>()
StructSize == 2

\* constructor calls made in one run of the process
MaxCalls == 2

\* most bytes of a line handed to unexpand_line
MaxLine == 4

\* bits of a usize in the model; every line is shorter than 2^UsizeBits bytes,
\* as every String is shorter than 2^64 bytes
UsizeBits == 4

----------------------------------------------------------------------------
\* Platforms and the UtmpxKind enumeration

Platforms == {"freebsd", "netbsd", "dragonfly", "solaris", "linux", "macos"}

UtmpxKind ==
    {"Accounting", "BootTime", "DeadProcess", "Empty", "InitProcess",
     "LoginProcess", "NewTime", "OldTime", "RunLevel", "Signature",
     "ShutdownProcess", "UserProcess", "DownTime"}

IntTypes == {"i8", "i16", "i32", "i64", "i128", "u8", "u16", "u32", "u64", "u128"}

Signed(ty) == ty \in {"i8", "i16", "i32", "i64", "i128"}

\* The values of type ty the model hands to a conversion: the whole range of
\* the 8-bit types, the limits of the 16-bit types, and a window around zero
\* for the wider ones.
IntValues(ty) ==
    CASE ty = "i8"  -> -128 .. 127
      [] ty = "u8"  -> 0 .. 255
      [] ty = "i16" -> (-WideSample .. WideSample) \cup {-32768, 32767}
      [] ty = "u16" -> (0 .. WideSample) \cup {65535}
      [] OTHER      -> IF Signed(ty) THEN -WideSample .. WideSample
                                     ELSE 0 .. WideSample

Ok(v) == <<"Ok", v>>
Err(e) == <<"Err", e>>
IsOk(r) == r[1] = "Ok"
IsErr(r) == r[1] = "Err"
None == <<"None">>

----------------------------------------------------------------------------
\* Number to UtmpxKind

\* #[cfg(target_os = "freebsd")]
TryFromNum_freebsd(num) ==
    CASE num = 0 -> Ok("Empty")
      [] num = 1 -> Ok("BootTime")
      [] num = 2 -> Ok("OldTime")
      [] num = 3 -> Ok("NewTime")
      [] num = 4 -> Ok("UserProcess")
      [] num = 5 -> Ok("InitProcess")
      [] num = 6 -> Ok("LoginProcess")
      [] num = 7 -> Ok("DeadProcess")
      [] num = 8 -> Ok("ShutdownProcess")
      [] OTHER   -> Err("OsNoNumber")

\* the NetBSD table with ACCOUNTING entered for 10 as well as for 9
TryFromNum_netbsd_twice(num) ==
    CASE num = 0 -> Ok("Empty")
      [] num = 1 -> Ok("RunLevel")
      [] num = 2 -> Ok("BootTime")
      [] num = 3 -> Ok("OldTime")
      [] num = 4 -> Ok("NewTime")
      [] num = 5 -> Ok("InitProcess")
      [] num = 6 -> Ok("LoginProcess")
      [] num = 7 -> Ok("UserProcess")
      [] num = 8 -> Ok("DeadProcess")
      [] num = 9 -> Ok("Accounting")
      [] num = 10 -> Ok("Accounting")
      [] num = 11 -> Ok("DownTime")
      [] OTHER   -> Err("OsNoNumber")

\* #[cfg(target_os = "netbsd")]
TryFromNum_netbsd(num) ==
    CASE num = 0 -> Ok("Empty")
      [] num = 1 -> Ok("RunLevel")
      [] num = 2 -> Ok("BootTime")
      [] num = 3 -> Ok("OldTime")
      [] num = 4 -> Ok("NewTime")
      [] num = 5 -> Ok("InitProcess")
      [] num = 6 -> Ok("LoginProcess")
      [] num = 7 -> Ok("UserProcess")
      [] num = 8 -> Ok("DeadProcess")
      [] num = 9 -> Ok("Accounting")
      [] num = 10 -> Ok("Signature")
      [] num = 11 -> Ok("DownTime")
      [] OTHER   -> Err("OsNoNumber")

\* #[cfg(target_os = "dragonfly")]
TryFromNum_dragonfly(num) ==
    CASE num = 0 -> Ok("Empty")
      [] num = 1 -> Ok("RunLevel")
      [] num = 2 -> Ok("BootTime")
      [] num = 3 -> Ok("NewTime")
      [] num = 4 -> Ok("OldTime")
      [] num = 5 -> Ok("InitProcess")
      [] num = 6 -> Ok("LoginProcess")
      [] num = 7 -> Ok("UserProcess")
      [] num = 8 -> Ok("DeadProcess")
      [] OTHER   -> Err("OsNoNumber")

\* the Solaris table whose catch-all arm classifies the number as Empty
TryFromNum_solaris_default(num) ==
    CASE num = 1 -> Ok("RunLevel")
      [] num = 2 -> Ok("BootTime")
      [] num = 3 -> Ok("OldTime")
      [] num = 4 -> Ok("NewTime")
      [] num = 5 -> Ok("InitProcess")
      [] num = 6 -> Ok("LoginProcess")
      [] num = 7 -> Ok("UserProcess")
      [] num = 8 -> Ok("DeadProcess")
      [] num = 9 -> Ok("Accounting")
      [] num = 10 -> Ok("DownTime")
      [] OTHER   -> Ok("Empty")

\* #[cfg(target_os = "solaris")]
TryFromNum_solaris(num) ==
    CASE num = 0 -> Ok("Empty")
      [] num = 1 -> Ok("RunLevel")
      [] num = 2 -> Ok("BootTime")
      [] num = 3 -> Ok("OldTime")
      [] num = 4 -> Ok("NewTime")
      [] num = 5 -> Ok("InitProcess")
      [] num = 6 -> Ok("LoginProcess")
      [] num = 7 -> Ok("UserProcess")
      [] num = 8 -> Ok("DeadProcess")
      [] num = 9 -> Ok("Accounting")
      [] num = 10 -> Ok("DownTime")
      [] OTHER   -> Err("OsNoNumber")

\* the Linux/macOS table with the two #[cfg(target_os = "macos")] attributes of
\* its last two arms left out
TryFromNum_linux_macos_nocfg(os, num) ==
    CASE num = 0 -> Ok("Empty")
      [] num = 1 -> Ok("RunLevel")
      [] num = 2 -> Ok("BootTime")
      [] num = 3 -> Ok("NewTime")
      [] num = 4 -> Ok("OldTime")
      [] num = 5 -> Ok("InitProcess")
      [] num = 6 -> Ok("LoginProcess")
      [] num = 7 -> Ok("UserProcess")
      [] num = 8 -> Ok("DeadProcess")
      [] num = 9 -> Ok("Accounting")
      [] num = 10 -> Ok("Signature")
      [] num = 11 -> Ok("ShutdownProcess")
      [] OTHER   -> Err("OsNoNumber")

\* #[cfg(any(target_os = "linux", target_os = "macos"))]
TryFromNum_linux_macos(os, num) ==
    CASE num = 0 -> Ok("Empty")
      [] num = 1 -> Ok("RunLevel")
      [] num = 2 -> Ok("BootTime")
      [] num = 3 -> Ok("NewTime")
      [] num = 4 -> Ok("OldTime")
      [] num = 5 -> Ok("InitProcess")
      [] num = 6 -> Ok("LoginProcess")
      [] num = 7 -> Ok("UserProcess")
      [] num = 8 -> Ok("DeadProcess")
      [] num = 9 -> Ok("Accounting")
      [] num = 10 /\ os = "macos" -> Ok("Signature")
      [] num = 11 /\ os = "macos" -> Ok("ShutdownProcess")
      [] OTHER   -> Err("OsNoNumber")

\* the impl the build selects
TryFromNum(os, num) ==
    CASE os = "freebsd" -> TryFromNum_freebsd(num)
      [] os = "netbsd" -> TryFromNum_netbsd(num)
      [] os = "dragonfly" -> TryFromNum_dragonfly(num)
      [] os = "solaris" -> TryFromNum_solaris(num)
      [] os \in {"linux", "macos"} -> TryFromNum_linux_macos(os, num)

----------------------------------------------------------------------------
\* UtmpxKind to number

\* #[cfg(target_os = "freebsd")]
TryFromKind_freebsd(utype) ==
    CASE utype = "Empty" -> Ok(0)
      [] utype = "BootTime" -> Ok(1)
      [] utype = "OldTime" -> Ok(2)
      [] utype = "NewTime" -> Ok(3)
      [] utype = "UserProcess" -> Ok(4)
      [] utype = "InitProcess" -> Ok(5)
      [] utype = "LoginProcess" -> Ok(6)
      [] utype = "DeadProcess" -> Ok(7)
      [] utype = "ShutdownProcess" -> Ok(8)
      [] OTHER -> Err("OsNoKind")

\* #[cfg(target_os = "netbsd")]
TryFromKind_netbsd(utype) ==
    CASE utype = "Empty" -> Ok(0)
      [] utype = "RunLevel" -> Ok(1)
      [] utype = "BootTime" -> Ok(2)
      [] utype = "OldTime" -> Ok(3)
      [] utype = "NewTime" -> Ok(4)
      [] utype = "InitProcess" -> Ok(5)
      [] utype = "LoginProcess" -> Ok(6)
      [] utype = "UserProcess" -> Ok(7)
      [] utype = "DeadProcess" -> Ok(8)
      [] utype = "Accounting" -> Ok(9)
      [] utype = "Signature" -> Ok(10)
      [] utype = "DownTime" -> Ok(11)
      [] OTHER -> Err("OsNoKind")

\* the DragonFly table with NewTime and OldTime in the order of the FreeBSD,
\* NetBSD and Solaris tables
TryFromKind_dragonfly_swapped(utype) ==
    CASE utype = "Empty" -> Ok(0)
      [] utype = "RunLevel" -> Ok(1)
      [] utype = "BootTime" -> Ok(2)
      [] utype = "OldTime" -> Ok(3)
      [] utype = "NewTime" -> Ok(4)
      [] utype = "InitProcess" -> Ok(5)
      [] utype = "LoginProcess" -> Ok(6)
      [] utype = "UserProcess" -> Ok(7)
      [] utype = "DeadProcess" -> Ok(8)
      [] OTHER -> Err("OsNoKind")

\* #[cfg(target_os = "dragonfly")]
TryFromKind_dragonfly(utype) ==
    CASE utype = "Empty" -> Ok(0)
      [] utype = "RunLevel" -> Ok(1)
      [] utype = "BootTime" -> Ok(2)
      [] utype = "NewTime" -> Ok(3)
      [] utype = "OldTime" -> Ok(4)
      [] utype = "InitProcess" -> Ok(5)
      [] utype = "LoginProcess" -> Ok(6)
      [] utype = "UserProcess" -> Ok(7)
      [] utype = "DeadProcess" -> Ok(8)
      [] OTHER -> Err("OsNoKind")

\* #[cfg(target_os = "solaris")]
TryFromKind_solaris(utype) ==
    CASE utype = "Empty" -> Ok(0)
      [] utype = "RunLevel" -> Ok(1)
      [] utype = "BootTime" -> Ok(2)
      [] utype = "OldTime" -> Ok(3)
      [] utype = "NewTime" -> Ok(4)
      [] utype = "InitProcess" -> Ok(5)
      [] utype = "LoginProcess" -> Ok(6)
      [] utype = "UserProcess" -> Ok(7)
      [] utype = "DeadProcess" -> Ok(8)
      [] utype = "Accounting" -> Ok(9)
      [] utype = "DownTime" -> Ok(10)
      [] OTHER -> Err("OsNoKind")

\* #[cfg(any(target_os = "linux", target_os = "macos"))]
TryFromKind_linux_macos(os, utype) ==
    CASE utype = "Empty" -> Ok(0)
      [] utype = "RunLevel" -> Ok(1)
      [] utype = "BootTime" -> Ok(2)
      [] utype = "NewTime" -> Ok(3)
      [] utype = "OldTime" -> Ok(4)
      [] utype = "InitProcess" -> Ok(5)
      [] utype = "LoginProcess" -> Ok(6)
      [] utype = "UserProcess" -> Ok(7)
      [] utype = "DeadProcess" -> Ok(8)
      [] utype = "Accounting" -> Ok(9)
      [] utype = "Signature" /\ os = "macos" -> Ok(10)
      [] utype = "ShutdownProcess" /\ os = "macos" -> Ok(11)
      [] OTHER -> Err("OsNoKind")

\* the impl the build selects
TryFromKind(os, utype) ==
    CASE os = "freebsd" -> TryFromKind_freebsd(utype)
      [] os = "netbsd" -> TryFromKind_netbsd(utype)
      [] os = "dragonfly" -> TryFromKind_dragonfly(utype)
      [] os = "solaris" -> TryFromKind_solaris(utype)
      [] os \in {"linux", "macos"} -> TryFromKind_linux_macos(os, utype)
----------------------------------------------------------------------------
\* Raw records and their normalisation

\* c_char values a raw array may hold: NUL, 'a', 0x7f, 0x80, 0xe9, 0xff
CharSample == {0, 97, 127, -128, -23, -1}

\* `cc as u8`
AsU8(cc) == cc % 256

\* the UTF-8 bytes of the char U+0000..U+00FF that `u8 as char` gives, as
\* String's FromIterator<char> stores it
Utf8Bytes(b) ==
    IF b < 128 THEN <<b>> ELSE <<192 + (b \div 64), 128 + (b % 64)>>

\* arr.iter().map(|cc| *cc as u8 as char).filter(|cc| cc != &'\0')
\*    .collect::<String>(), then BString::from(cstr.as_bytes())
RECURSIVE CollectName(_)
CollectName(arr) ==
    IF arr = <<>> THEN <<>>
    ELSE LET b == AsU8(Head(arr))
         IN  (IF b # 0 THEN Utf8Bytes(b) ELSE <<>>) \o CollectName(Tail(arr))

\* the optional fields the Utmpx struct has on platform os
HasExit(os) == os \in {"linux", "netbsd", "solaris"}
HasSession(os) == os \in {"linux", "netbsd", "dragonfly", "solaris"}
HasAddrV6(os) == os = "linux"
HasSs(os) == os = "netbsd"
HasSyslen(os) == os = "solaris"

OptionalFields(os, c_utmpx) ==
    LET pick(has, name, v) == IF has THEN name :> v ELSE <<>>
    IN  pick(HasExit(os), "exit", c_utmpx.ut_exit)
        @@ pick(HasSession(os), "session", c_utmpx.ut_session)
        @@ pick(HasAddrV6(os), "addr_v6", c_utmpx.ut_addr_v6)
        @@ pick(HasSs(os), "ss", c_utmpx.ut_ss)
        @@ pick(HasSyslen(os), "syslen", c_utmpx.ut_syslen)

Panic(msg) == <<"Panic", msg>>
IsPanic(r) == r[1] = "Panic"

\* `as time_t`, `as suseconds_t` and `as i64` on the fields of a timeval: the
\* field of the raw record is an i32 (Linux on x86_64) or already a time_t or
\* suseconds_t, and time_t and suseconds_t are i32 or i64, so each cast is a
\* sign extension or no change of type, and the number stays what it was
AsTimeT(v) == v
AsSusecondsT(v) == v
AsI64(v) == v

\* From<utmpx> with unwrap_or(UtmpxKind::Empty) in the place of the panic
From_lenient(os, c_utmpx) ==
    LET user == CollectName(c_utmpx.ut_user)
        host == CollectName(c_utmpx.ut_host)
        pid  == c_utmpx.ut_pid
        id   == CollectName(c_utmpx.ut_id)
        line == CollectName(c_utmpx.ut_line)
        kind == TryFromNum(os, c_utmpx.ut_type)
        timeval == [tv_sec |-> AsTimeT(c_utmpx.ut_tv.tv_sec),
                    tv_usec |-> AsSusecondsT(c_utmpx.ut_tv.tv_usec)]
    IN  Ok([user |-> user, host |-> host, pid |-> pid, id |-> id,
            line |-> line, timeval |-> timeval,
            ut_type |-> IF IsErr(kind) THEN "Empty" ELSE kind[2]]
           @@ OptionalFields(os, c_utmpx))

\* impl From<utmpx> for Utmpx: Ok(entry), or the panic raised on an unmapped
\* ut_type (ut_user is called ut_name on NetBSD and DragonFly)
From(os, c_utmpx) ==
    LET user == CollectName(c_utmpx.ut_user)
        host == CollectName(c_utmpx.ut_host)
        pid  == c_utmpx.ut_pid
        id   == CollectName(c_utmpx.ut_id)
        line == CollectName(c_utmpx.ut_line)
        kind == TryFromNum(os, c_utmpx.ut_type)
        timeval == [tv_sec |-> AsTimeT(c_utmpx.ut_tv.tv_sec),
                    tv_usec |-> AsSusecondsT(c_utmpx.ut_tv.tv_usec)]
    IN  IF IsErr(kind) THEN Panic(kind[2])
        ELSE Ok([user |-> user, host |-> host, pid |-> pid, id |-> id,
                 line |-> line, ut_type |-> kind[2], timeval |-> timeval]
                @@ OptionalFields(os, c_utmpx))

\* Utmpx::from_c_utmpx
from_c_utmpx(os, utm) == From(os, utm)

\* accessors of Utmpx
user(e) == e.user
host(e) == e.host
id(e) == e.id
device_name(e) == e.line
timeval(e) == e.timeval

\* An instant is held as whole seconds since the Unix epoch and the
\* microseconds 0 .. 999999 past them; a duration likewise.
\* DateTime::from_unix_timestamp, Duration::microseconds and DateTime + Duration
from_unix_timestamp(ts) == [secs |-> ts, micros |-> 0]
microseconds(us) == [secs |-> us \div 1000000, micros |-> us % 1000000]
Plus(dt, d) ==
    LET m == dt.micros + d.micros
    IN  [secs |-> dt.secs + d.secs + (m \div 1000000), micros |-> m % 1000000]

\* Utmpx::login_time with Duration::milliseconds for Duration::microseconds
login_time_millis(e) ==
    Plus(from_unix_timestamp(AsI64(e.timeval.tv_sec)),
         microseconds(1000 * AsI64(e.timeval.tv_usec)))

\* Utmpx::login_time
login_time(e) ==
    Plus(from_unix_timestamp(AsI64(e.timeval.tv_sec)),
         microseconds(AsI64(e.timeval.tv_usec)))

NameFields == {"ut_user", "ut_host", "ut_id", "ut_line"}

\* every array of ArrLen characters over CharSample
NameArrays == [1 .. ArrLen -> CharSample]

\* a record of the accounting database on which the sampled ones are built:
\* a user process of "a" with empty host, id and line
BaseRecord ==
    [ut_user |-> [i \in 1 .. ArrLen |-> IF i = 1 THEN 97 ELSE 0],
     ut_host |-> [i \in 1 .. ArrLen |-> 0],
     ut_id   |-> [i \in 1 .. ArrLen |-> 0],
     ut_line |-> [i \in 1 .. ArrLen |-> 0],
     ut_pid  |-> 1,
     ut_type |-> 7,
     ut_tv   |-> [tv_sec |-> 0, tv_usec |-> 0],
     ut_exit |-> 0, ut_session |-> 0, ut_addr_v6 |-> 0, ut_ss |-> 0,
     ut_syslen |-> 0]

\* type codes of the sampled records: mapped everywhere (0, 7), mapped on some
\* platforms (10), mapped nowhere (12, -1)
TypeSample == {0, 7, 10, 12, -1}

\* times of the sampled records: the epoch, a date of 2023 and the second
\* before the epoch; microseconds inside a second, past it and negative
TvSample ==
    [tv_sec : {0, 1700000000, -1}, tv_usec : {0, 500000, 1500000, -1}]

\* the raw records handed to the normaliser: one name array takes every value,
\* or the time does
RawSample ==
    {[[BaseRecord EXCEPT ![f] = a] EXCEPT !.ut_type = t] :
        f \in NameFields, a \in NameArrays, t \in TypeSample}
    \cup {[[BaseRecord EXCEPT !.ut_tv = tv] EXCEPT !.ut_type = t] :
            tv \in TvSample, t \in TypeSample}

\* the codec and the normaliser at rest, in the specifications that do not
\* exercise them
CodecIdle ==
    /\ cOs = "linux"
    /\ cTy = "i8"
    /\ cStep = "idle"
    /\ cNum = 0
    /\ cKind = "Empty"
    /\ cToKind = None
    /\ cToCode = None

NormIdle ==
    /\ nOs = "linux"
    /\ nRaw = BaseRecord
    /\ nStep = "idle"
    /\ nEntry = None

UnexpIdle ==
    /\ uAll = FALSE
    /\ uLine = <<>>
    /\ uIdx = 0
    /\ uSpaces = 0
    /\ uColumn = 0
    /\ uConvert = TRUE
    /\ uOut = <<>>
    /\ uWrapped = FALSE
    /\ uPc = "off"

SetIdle ==
    /\ targetOs = "linux"
    /\ db = <<>>
    /\ file = <<>>
    /\ extra = 0
    /\ utName = "utmpx"
    /\ utOpen = FALSE
    /\ utPos = 0
    /\ pc = "off"
    /\ call = [op |-> "none", path |-> "", res |-> 0, short |-> FALSE]
    /\ set = <<>>
    /\ fetched = <<>>
    /\ vec = <<>>
    /\ oob = 0
    /\ ended = FALSE
    /\ result = None
    /\ ncalls = 0

InitNorm ==
    /\ nOs \in Platforms
    /\ nRaw \in RawSample
    /\ nStep = "raw"
    /\ nEntry = None
    /\ CodecIdle
    /\ SetIdle
    /\ UnexpIdle

\* Utmpx::from_c_utmpx(nRaw) returns an entry
FromCUtmpx ==
    /\ nStep = "raw"
    /\ IsOk(from_c_utmpx(nOs, nRaw))
    /\ nEntry' = from_c_utmpx(nOs, nRaw)[2]
    /\ nStep' = "normalized"
    /\ UNCHANGED <<nOs, nRaw>>
    /\ UNCHANGED codecVars
    /\ UNCHANGED setVars
    /\ UNCHANGED unexpVars

\* Utmpx::from_c_utmpx(nRaw) panics
FromCUtmpxPanic ==
    /\ nStep = "raw"
    /\ IsPanic(from_c_utmpx(nOs, nRaw))
    /\ nStep' = "panicked"
    /\ UNCHANGED <<nOs, nRaw, nEntry>>
    /\ UNCHANGED codecVars
    /\ UNCHANGED setVars
    /\ UNCHANGED unexpVars

NextNorm ==
    \/ FromCUtmpx
    \/ FromCUtmpxPanic

SpecNorm == InitNorm /\ [][NextNorm]_vars

----------------------------------------------------------------------------
\* The accounting databases and the process-wide cursor of the C library.
\* utmpxname, setutxent, getutxent and endutxent are the libc functions the
\* constructors call; they are modelled as glibc (Linux) and Apple's Libc
\* (macOS) implement them, and as a plain sequential cursor elsewhere.

\* _PATH_UTMPX, the database the cursor reads until it is redirected
DefaultDb == "utmpx"

\* the paths a caller hands to from_file
Paths == {"wtmpx", "nofilex", "nofile", "secretx", "wtmpx_latin1", "wtmpx_nul"}
\* a path that is not valid UTF-8: Path::to_str gives None
NonUtf8Paths == {"wtmpx_latin1"}
\* a path with an interior NUL byte: CString::new gives Err
InteriorNulPaths == {"wtmpx_nul"}
\* the paths that name the accounting file, and those that can be opened
ExistingPaths == {"wtmpx", "secretx", "wtmpx_latin1"}
ReadablePaths == {"wtmpx", "wtmpx_latin1"}
\* names Apple's utmpxname accepts: they end in 'x'
EndsInX(name) == name \in {"utmpx", "wtmpx", "nofilex", "secretx"}

Exists(name) == name = DefaultDb \/ name \in ExistingPaths
Readable(name) == name = DefaultDb \/ name \in ReadablePaths
Records(name) == IF name = DefaultDb THEN db ELSE file

\* the raw records the databases are made of: two records that differ only in
\* where the NUL bytes of ut_user are, a third user, and a record whose type
\* code no platform maps
RecA == BaseRecord
RecB == [BaseRecord EXCEPT !.ut_user = [i \in 1 .. ArrLen |-> IF i = 2 THEN 97 ELSE 0]]
RecC == [BaseRecord EXCEPT !.ut_user = [i \in 1 .. ArrLen |-> 97]]
RecBad == [BaseRecord EXCEPT !.ut_type = 12]
DbRecords == {RecA, RecB, RecC, RecBad}

SeqsUpTo(n) == UNION {[1 .. k -> DbRecords] : k \in 0 .. n}

\* a pointer to a record is <<record>>, the null pointer <<>>
NULL == <<>>

Cur == [name |-> utName, open |-> utOpen, pos |-> utPos]
SetCur(c) ==
    /\ utName' = c.name
    /\ utOpen' = c.open
    /\ utPos' = c.pos

\* endutxent(): closes the database
endutxent(cur) == [cur EXCEPT !.open = FALSE, !.pos = 0]

\* setutxent(): rewinds the cursor, opening the database it is set to
setutxent(cur) == [cur EXCEPT !.open = Readable(cur.name), !.pos = 0]

\* getutxent(): opens the database if the cursor is closed, then returns the
\* next record, or NULL at the end or when the database cannot be opened
getutxent(cur) ==
    LET opened == IF cur.open THEN cur ELSE setutxent(cur)
    IN  IF opened.open /\ opened.pos < Len(Records(opened.name))
        THEN [ut |-> <<Records(opened.name)[opened.pos + 1]>>,
              cur |-> [opened EXCEPT !.pos = @ + 1]]
        ELSE [ut |-> NULL, cur |-> opened]

\* utmpxname(file).  glibc closes the cursor and stores the name without
\* looking at the file: 0, or -1 when the copy of the name cannot be
\* allocated.  Apple's Libc returns 0 for a name it rejects (one that does not
\* end in 'x'), else stores the name, closes the cursor and returns 1; of an
\* empty name it tests fname[-1], the byte in front of the string, which is
\* whatever the heap holds there.  odd is the rare outcome: no memory in
\* glibc, an 'x' in front of the empty name in Apple's Libc.
utmpxname(tos, cur, cfile, odd) ==
    IF tos = "macos"
    THEN IF (cfile = "" /\ odd) \/ (cfile # "" /\ EndsInX(cfile))
         THEN [res |-> 1, cur |-> [endutxent(cur) EXCEPT !.name = cfile]]
         ELSE [res |-> 0, cur |-> cur]
    ELSE IF odd
         THEN [res |-> -1, cur |-> endutxent(cur)]
         ELSE [res |-> 0, cur |-> [endutxent(cur) EXCEPT !.name = cfile]]

----------------------------------------------------------------------------
\* UtmpxSet

\* a Vec's push in the place of HashSet::insert
insert_push(s, e) == Append(s, e)

\* HashSet::insert: the entries held, none of them twice (the order of the
\* sequence stands for the unspecified iteration order)
insert(s, e) ==
    IF \E i \in 1 .. Len(s) : s[i] = e THEN s ELSE Append(s, e)

\* UtmpxSet::len, UtmpxSet::is_empty
len(s) == Len(s)
is_empty(s) == Len(s) = 0

\* the CString from_file hands to utmpxname: the empty string for a path that
\* is not UTF-8 (None => "") or holds a NUL (unwrap_or_default)
CFile(path) ==
    LET str == IF path \in NonUtf8Paths THEN "" ELSE path
    IN  IF str \in InteriorNulPaths THEN "" ELSE str

LiveFromFile == targetOs \in {"linux", "macos"}

Init ==
    /\ targetOs \in Platforms
    /\ db \in SeqsUpTo(MaxRecords)
    /\ file \in SeqsUpTo(MaxRecords - Len(db))
    /\ extra \in 0 .. StructSize - 1
    /\ utName = DefaultDb
    /\ utOpen = FALSE
    /\ utPos = 0
    /\ pc = "idle"
    /\ call = [op |-> "none", path |-> "", res |-> 0, short |-> FALSE]
    /\ set = <<>>
    /\ fetched = <<>>
    /\ vec = <<>>
    /\ oob = 0
    /\ ended = FALSE
    /\ result = None
    /\ ncalls = 0
    /\ CodecIdle
    /\ NormIdle
    /\ UnexpIdle

\* a constructor is entered: its locals are fresh.  short tells that the file
\* lost bytes between fs::metadata and read_exact.
EnterWith(op, path, res, short) ==
    /\ pc = "idle"
    /\ ncalls < MaxCalls
    /\ ncalls' = ncalls + 1
    /\ call' = [op |-> op, path |-> path, res |-> res, short |-> short]
    /\ set' = <<>>
    /\ fetched' = <<>>
    /\ ended' = FALSE

Enter(op, path, res) == EnterWith(op, path, res, FALSE)

\* UtmpxSet::system(), up to the fetch loop: setutxent()
System ==
    /\ Enter("system", "", 0)
    /\ SetCur(setutxent(Cur))
    /\ pc' = "loop"
    /\ result' = None
    /\ vec' = <<>>
    /\ oob' = 0
    /\ UNCHANGED envVars
    /\ UNCHANGED <<codecVars, normVars, unexpVars>>

\* UtmpxSet::from_file(path) on Linux/macOS, up to the fetch loop: utmpxname
\* returned 0
FromFile ==
    /\ LiveFromFile
    /\ \E path \in Paths, odd \in BOOLEAN :
         LET r == utmpxname(targetOs, Cur, CFile(path), odd)
         IN  /\ r.res = 0
             /\ Enter("from_file", path, r.res)
             /\ SetCur(r.cur)
    /\ pc' = "loop"
    /\ result' = None
    /\ vec' = <<>>
    /\ oob' = 0
    /\ UNCHANGED envVars
    /\ UNCHANGED <<codecVars, normVars, unexpVars>>

\* UtmpxSet::from_file(path) on Linux/macOS when utmpxname returned non-zero:
\* return Err(io::Error::last_os_error())
FromFileErr ==
    /\ LiveFromFile
    /\ \E path \in Paths, odd \in BOOLEAN :
         LET r == utmpxname(targetOs, Cur, CFile(path), odd)
         IN  /\ r.res # 0
             /\ Enter("from_file", path, r.res)
             /\ SetCur(r.cur)
    /\ pc' = "idle"
    /\ result' = Err("io")
    /\ vec' = <<>>
    /\ oob' = 0
    /\ UNCHANGED envVars
    /\ UNCHANGED <<codecVars, normVars, unexpVars>>

\* one turn of the fetch loop: getutxent() gave a record, which is normalised
\* and inserted
GetUtxentInsert ==
    /\ pc = "loop"
    /\ LET g == getutxent(Cur)
       IN  /\ g.ut # NULL
           /\ IsOk(from_c_utmpx(targetOs, g.ut[1]))
           /\ set' = insert(set, from_c_utmpx(targetOs, g.ut[1])[2])
           /\ fetched' = Append(fetched, g.ut[1])
           /\ SetCur(g.cur)
    /\ UNCHANGED <<pc, call, vec, oob, ended, result, ncalls>>
    /\ UNCHANGED envVars
    /\ UNCHANGED <<codecVars, normVars, unexpVars>>

\* one turn of the fetch loop: getutxent() gave a record whose normalisation
\* panics; the constructor is left by unwinding and its set is dropped
GetUtxentPanic ==
    /\ pc = "loop"
    /\ LET g == getutxent(Cur)
       IN  /\ g.ut # NULL
           /\ IsPanic(from_c_utmpx(targetOs, g.ut[1]))
           /\ result' = from_c_utmpx(targetOs, g.ut[1])
           /\ fetched' = Append(fetched, g.ut[1])
           /\ SetCur(g.cur)
    /\ set' = <<>>
    /\ pc' = "idle"
    /\ UNCHANGED <<call, vec, oob, ended, ncalls>>
    /\ UNCHANGED envVars
    /\ UNCHANGED <<codecVars, normVars, unexpVars>>

\* the last turn of the fetch loop: getutxent() gave NULL; break, endutxent(),
\* and the set is returned
GetUtxentNull ==
    /\ pc = "loop"
    /\ LET g == getutxent(Cur)
       IN  /\ g.ut = NULL
           /\ SetCur(endutxent(g.cur))
    /\ ended' = TRUE
    /\ result' = Ok(set)
    /\ set' = <<>>
    /\ pc' = "idle"
    /\ UNCHANGED <<call, fetched, vec, oob, ncalls>>
    /\ UNCHANGED envVars
    /\ UNCHANGED <<codecVars, normVars, unexpVars>>

\* size of the accounting file in bytes
FileBytes == Len(file) * StructSize + extra

\* the i-th record of the buffer read from the accounting file
BufferRecord(i) ==
    IF i <= Len(file) THEN file[i] ELSE [BaseRecord EXCEPT !.ut_type = -1]

\* UtmpxSet::from_file(path) elsewhere, when fs::metadata or File::open fails
FlatFromFileErr ==
    /\ ~LiveFromFile
    /\ \E path \in Paths :
         /\ ~(Exists(path) /\ Readable(path))
         /\ Enter("from_file", path, 0)
    /\ pc' = "idle"
    /\ result' = Err("io")
    /\ vec' = <<>>
    /\ oob' = 0
    /\ UNCHANGED envVars
    /\ UNCHANGED <<codecVars, normVars, unexpVars>>
    /\ UNCHANGED cursorVars

\* UtmpxSet::from_file(path) elsewhere, when the file holds fewer bytes than
\* fs::metadata told: read_exact fails with UnexpectedEof and `?` returns it
FlatFromFileShort ==
    /\ ~LiveFromFile
    /\ FileBytes > 0
    /\ \E path \in Paths :
         /\ Exists(path) /\ Readable(path)
         /\ EnterWith("from_file", path, 0, TRUE)
    /\ pc' = "idle"
    /\ result' = Err("io")
    /\ vec' = <<>>
    /\ oob' = 0
    /\ UNCHANGED envVars
    /\ UNCHANGED <<codecVars, normVars, unexpVars>>
    /\ UNCHANGED cursorVars

\* UtmpxSet::from_file(path) elsewhere, up to the loop over the records:
\* num_structs = num_bytes / struct_size, a Vec of that capacity, and
\* read_exact of num_bytes bytes into it.  The bytes of a partial record are
\* stored past the allocation, which is undefined behaviour: the call goes on
\* (crash = FALSE) or the process dies of it (crash = TRUE).
FlatFromFile ==
    /\ ~LiveFromFile
    /\ \E path \in Paths, crash \in BOOLEAN :
         LET num_bytes == FileBytes
             num_structs == num_bytes \div StructSize
             over == num_bytes - num_structs * StructSize
         IN  /\ Exists(path) /\ Readable(path)
             /\ crash => over > 0
             /\ Enter("from_file", path, 0)
             /\ oob' = over
             /\ IF crash
                THEN /\ pc' = "crashed"
                     /\ vec' = <<>>
                     /\ result' = <<"Crash">>
                ELSE /\ pc' = "flat"
                     /\ vec' = [i \in 1 .. num_structs |-> BufferRecord(i)]
                     /\ result' = None
    /\ UNCHANGED envVars
    /\ UNCHANGED <<codecVars, normVars, unexpVars>>
    /\ UNCHANGED cursorVars

\* one turn of `for raw_utm in vec`: the record is normalised and inserted
FlatInsert ==
    /\ pc = "flat"
    /\ vec # <<>>
    /\ IsOk(from_c_utmpx(targetOs, Head(vec)))
    /\ set' = insert(set, from_c_utmpx(targetOs, Head(vec))[2])
    /\ fetched' = Append(fetched, Head(vec))
    /\ vec' = Tail(vec)
    /\ UNCHANGED <<pc, call, oob, ended, result, ncalls>>
    /\ UNCHANGED envVars
    /\ UNCHANGED <<codecVars, normVars, unexpVars>>
    /\ UNCHANGED cursorVars

\* one turn of `for raw_utm in vec`: the normalisation of the record panics
FlatPanic ==
    /\ pc = "flat"
    /\ vec # <<>>
    /\ IsPanic(from_c_utmpx(targetOs, Head(vec)))
    /\ result' = from_c_utmpx(targetOs, Head(vec))
    /\ fetched' = Append(fetched, Head(vec))
    /\ vec' = <<>>
    /\ set' = <<>>
    /\ pc' = "idle"
    /\ UNCHANGED <<call, oob, ended, ncalls>>
    /\ UNCHANGED envVars
    /\ UNCHANGED <<codecVars, normVars, unexpVars>>
    /\ UNCHANGED cursorVars

\* the loop over the records is over: Ok(UtmpxSet(set))
FlatReturn ==
    /\ pc = "flat"
    /\ vec = <<>>
    /\ result' = Ok(set)
    /\ set' = <<>>
    /\ pc' = "idle"
    /\ UNCHANGED <<call, fetched, vec, oob, ended, ncalls>>
    /\ UNCHANGED envVars
    /\ UNCHANGED <<codecVars, normVars, unexpVars>>
    /\ UNCHANGED cursorVars

Next ==
    \/ System
    \/ FromFile
    \/ FromFileErr
    \/ GetUtxentInsert
    \/ GetUtxentPanic
    \/ GetUtxentNull
    \/ FlatFromFileErr
    \/ FlatFromFileShort
    \/ FlatFromFile
    \/ FlatInsert
    \/ FlatPanic
    \/ FlatReturn

Spec == Init /\ [][Next]_vars

----------------------------------------------------------------------------
\* The codec as a state machine: a caller converts a number of type cTy or a
\* kind, and may convert the successful result back.

InitCodec ==
    /\ cOs \in Platforms
    /\ cTy \in IntTypes
    /\ cStep = "start"
    /\ cNum = 0
    /\ cKind = "Empty"
    /\ cToKind = None
    /\ cToCode = None
    /\ NormIdle
    /\ SetIdle
    /\ UnexpIdle

\* UtmpxKind::try_from(num) on a fresh number
CallToKind ==
    /\ cStep = "start"
    /\ \E n \in IntValues(cTy) :
         /\ cNum' = n
         /\ cToKind' = TryFromNum(cOs, n)
    /\ cStep' = "to_kind"
    /\ UNCHANGED <<cOs, cTy, cKind, cToCode>>
    /\ UNCHANGED normVars
    /\ UNCHANGED setVars
    /\ UNCHANGED unexpVars

\* <$t>::try_from(utype) on a fresh kind
CallToCode ==
    /\ cStep = "start"
    /\ \E k \in UtmpxKind :
         /\ cKind' = k
         /\ cToCode' = TryFromKind(cOs, k)
    /\ cStep' = "to_code"
    /\ UNCHANGED <<cOs, cTy, cNum, cToKind>>
    /\ UNCHANGED normVars
    /\ UNCHANGED setVars
    /\ UNCHANGED unexpVars

\* UtmpxKind::try_from applied to the code a successful <$t>::try_from gave
KindOfCode ==
    /\ cStep = "to_code"
    /\ IsOk(cToCode)
    /\ cNum' = cToCode[2]
    /\ cToKind' = TryFromNum(cOs, cToCode[2])
    /\ cStep' = "code_to_kind"
    /\ UNCHANGED <<cOs, cTy, cKind, cToCode>>
    /\ UNCHANGED normVars
    /\ UNCHANGED setVars
    /\ UNCHANGED unexpVars

\* <$t>::try_from applied to the kind a successful UtmpxKind::try_from gave
CodeOfKind ==
    /\ cStep = "to_kind"
    /\ IsOk(cToKind)
    /\ cKind' = cToKind[2]
    /\ cToCode' = TryFromKind(cOs, cToKind[2])
    /\ cStep' = "kind_to_code"
    /\ UNCHANGED <<cOs, cTy, cNum, cToKind>>
    /\ UNCHANGED normVars
    /\ UNCHANGED setVars
    /\ UNCHANGED unexpVars

NextCodec ==
    \/ CallToKind
    \/ CallToCode
    \/ KindOfCode
    \/ CodeOfKind

SpecCodec == InitCodec /\ [][NextCodec]_vars

----------------------------------------------------------------------------
\* unexpand: Unexpand::unexpand_line on one line

\* the bytes a line is made of: space, backspace, tab and 'a'
ByteSample == {32, 8, 9, 97}

Lines == UNION {[1 .. n -> ByteSample] : n \in 0 .. MaxLine}

\* usize arithmetic: the value kept, and whether the exact result was lost
UsizeRange == 2 ^ UsizeBits
Wrap(v) == v % UsizeRange
Overflows(v) == v < 0 \/ v >= UsizeRange

\* `!` of Rust on a bool, which is what `!` of C gives on an integer
Not_logical(x) == IF x = 0 THEN 1 ELSE 0

\* `!` on a usize: the bitwise complement
Not(x) == (UsizeRange - 1) - x

\* str::repeat on a string of one byte
Repeat(b, n) == [i \in 1 .. n |-> b]

InitUnexpand ==
    /\ uAll \in BOOLEAN
    /\ uLine \in Lines
    /\ uIdx = 0
    /\ uSpaces = 0
    /\ uColumn = 0
    /\ uConvert = TRUE
    /\ uOut = <<>>
    /\ uWrapped = FALSE
    /\ uPc = "loop"
    /\ CodecIdle
    /\ NormIdle
    /\ SetIdle

\* the end of one turn of `for c in line.bytes()`, after the match on c:
\* column += 1, and convert &= self.all || blank
EndOfTurn(c, column, wrapped) ==
    /\ uIdx' = uIdx + 1
    /\ uColumn' = Wrap(column + 1)
    /\ uWrapped' = (wrapped \/ Overflows(column + 1))
    /\ uConvert' = (uConvert /\ (uAll \/ c = 32 \/ c = 9))
    /\ UNCHANGED <<uAll, uLine, uPc>>
    /\ UNCHANGED <<codecVars, normVars, setVars>>

\* a turn of the loop on b' ': spaces += 1
TurnSpace ==
    /\ uPc = "loop"
    /\ uIdx < Len(uLine)
    /\ uLine[uIdx + 1] = 32
    /\ uSpaces' = Wrap(uSpaces + 1)
    /\ uOut' = uOut
    /\ EndOfTurn(32, uColumn, uWrapped \/ Overflows(uSpaces + 1))

\* a turn of the loop on b'\x08': spaces -= !!spaces; column -= !!column
TurnBackspace ==
    /\ uPc = "loop"
    /\ uIdx < Len(uLine)
    /\ uLine[uIdx + 1] = 8
    /\ LET spaces == uSpaces - Not(Not(uSpaces))
           column == uColumn - Not(Not(uColumn))
       IN  /\ uSpaces' = Wrap(spaces)
           /\ uOut' = uOut
           /\ EndOfTurn(8, Wrap(column),
                         uWrapped \/ Overflows(spaces) \/ Overflows(column))

\* a turn of the loop on any other byte: the spaces held back are written, as
\* tabs where more than two are to be converted, and then the byte
TurnOther ==
    /\ uPc = "loop"
    /\ uIdx < Len(uLine)
    /\ LET c == uLine[uIdx + 1]
           tabs == IF uSpaces > 2 /\ uConvert THEN uSpaces \div 2 ELSE 0
           rest == IF uSpaces > 2 /\ uConvert THEN uSpaces % 2 ELSE uSpaces
       IN  /\ c \notin {32, 8}
           /\ uOut' = uOut \o Repeat(9, tabs) \o Repeat(32, rest) \o <<c>>
           /\ uSpaces' = 0
           /\ EndOfTurn(c, uColumn, uWrapped)

\* after the loop: the newline is written and the output flushed
EndOfLine ==
    /\ uPc = "loop"
    /\ uIdx = Len(uLine)
    /\ uOut' = Append(uOut, 10)
    /\ uPc' = "done"
    /\ UNCHANGED <<uAll, uLine, uIdx, uSpaces, uColumn, uConvert, uWrapped>>
    /\ UNCHANGED <<codecVars, normVars, setVars>>

NextUnexpand ==
    \/ TurnSpace
    \/ TurnBackspace
    \/ TurnOther
    \/ EndOfLine

SpecUnexpand == InitUnexpand /\ [][NextUnexpand]_vars

----------------------------------------------------------------------------
\* Properties of the codec, in the behaviours of SpecCodec

\* the kinds <$t>::try_from encodes on platform os, and their codes
EncodedKinds(os) == {k \in UtmpxKind : IsOk(TryFromKind(os, k))}
ValidCodes(os) == {TryFromKind(os, k)[2] : k \in EncodedKinds(os)}
MaxCode(os) == CHOOSE c \in ValidCodes(os) : \A d \in ValidCodes(os) : d <= c
\* the kinds some number of the sampled range decodes to on platform os
DecodedKinds(os) ==
    {k \in UtmpxKind : \E n \in -1 .. 256 : TryFromNum(os, n) = Ok(k)}

\* C2: on every platform, whenever to_code succeeds on a kind, to_kind of the
\* code it returned gives that kind back.
C2_RoundTrip ==
    cStep = "code_to_kind" => cToKind = Ok(cKind)

C2_Witness ==
    /\ cStep = "code_to_kind"
    /\ cOs = "dragonfly"
    /\ cKind = "NewTime"
    /\ cNum = 3
    /\ cToKind = Ok("NewTime")

\* C3: to_kind of an integer outside the platform's code range (negative, above
\* the largest code, or the code of no kind) is Err(OsNoNumber); to_code of a
\* kind no number decodes to on the platform is Err(OsNoKind).
C3_ExplicitFailure ==
    /\ ( /\ cStep = "to_kind"
         /\ (cNum < 0 \/ cNum > MaxCode(cOs) \/ cNum \notin ValidCodes(cOs)) )
       => cToKind = Err("OsNoNumber")
    /\ (cStep = "to_code" /\ cKind \notin DecodedKinds(cOs))
       => cToCode = Err("OsNoKind")

C3_Witness ==
    /\ cStep = "to_kind"
    /\ cTy = "i8"
    /\ cNum = -128
    /\ cOs = "solaris"
    /\ cToKind = Err("OsNoNumber")

C17_Inverse ==
    /\ cStep = "kind_to_code" => cToCode = Ok(cNum)
    /\ cStep = "to_kind" =>
          /\ IsOk(cToKind) <=> cNum \in ValidCodes(cOs)
          /\ IsOk(cToKind) =>
                /\ TryFromKind(cOs, cToKind[2]) = Ok(cNum)
                /\ \A n \in IntValues(cTy) :
                      TryFromNum(cOs, n) = cToKind => n = cNum
    /\ (cStep = "to_code" /\ IsOk(cToCode)) =>
          /\ cToCode[2] \in 0 .. 127
          /\ \A k \in UtmpxKind : TryFromKind(cOs, k) = cToCode => k = cKind

C17_Witness ==
    /\ cStep = "kind_to_code"
    /\ cOs = "netbsd"
    /\ cTy = "u128"
    /\ cNum = 10
    /\ cKind = "Signature"
    /\ cToCode = Ok(10)

----------------------------------------------------------------------------
\* Properties of the normalisation, in the behaviours of SpecNorm

\* the bytes of a raw array that precede its first zero byte
RECURSIVE UntilNul(_)
UntilNul(arr) ==
    IF arr = <<>> \/ AsU8(Head(arr)) = 0 THEN <<>>
    ELSE <<AsU8(Head(arr))>> \o UntilNul(Tail(arr))

\* every byte of the array is a 7-bit byte
Ascii(arr) == \A i \in 1 .. Len(arr) : AsU8(arr[i]) < 128

\* nothing but zero bytes follows the first zero byte of the array
ZeroPadded(arr) ==
    \A i, j \in 1 .. Len(arr) : (i < j /\ AsU8(arr[i]) = 0) => AsU8(arr[j]) = 0

\* C5: normalisation sets user, host, id and line to exactly the bytes of the
\* raw array that precede its first zero byte; what follows that byte is
\* discarded.  Stated on the arrays of 7-bit bytes (the bytes above 0x7f are
\* the subject of C6).
TrimmedAtNul(name, arr) == Ascii(arr) => name = UntilNul(arr)

C5_AsStated ==
    nStep = "normalized" =>
        /\ TrimmedAtNul(user(nEntry), nRaw.ut_user)
        /\ TrimmedAtNul(host(nEntry), nRaw.ut_host)
        /\ TrimmedAtNul(id(nEntry), nRaw.ut_id)
        /\ TrimmedAtNul(device_name(nEntry), nRaw.ut_line)

\* C6: whatever values 1..255 the bytes before the first zero take, the
\* normalised name has the length of that raw prefix and the same byte at
\* every position.  Stated on the arrays that are zero-padded after their
\* first zero byte (what follows the first zero is the subject of C5).
SameBytes(name, arr) ==
    LET prefix == UntilNul(arr)
    IN  (ZeroPadded(arr) /\ \A i \in 1 .. Len(prefix) : prefix[i] \in 1 .. 255) =>
            /\ Len(name) = Len(prefix)
            /\ \A i \in 1 .. Len(prefix) : name[i] = prefix[i]

C6_AsStated ==
    nStep = "normalized" =>
        /\ SameBytes(user(nEntry), nRaw.ut_user)
        /\ SameBytes(host(nEntry), nRaw.ut_host)
        /\ SameBytes(id(nEntry), nRaw.ut_id)
        /\ SameBytes(device_name(nEntry), nRaw.ut_line)

----------------------------------------------------------------------------
\* Properties of the construction of a UtmpxSet, in the behaviours of Spec

\* the last constructor call is over and was op
Finished(op) == pc = "idle" /\ call.op = op /\ result # None

\* the last call was one of the live-cursor constructors
LiveCall ==
    \/ call.op = "system"
    \/ call.op = "from_file" /\ LiveFromFile

\* C1: a live-cursor constructor that has been left, by return or by panic,
\* has called endutxent.
C1_AsStated ==
    ((Finished("system") \/ Finished("from_file")) /\ LiveCall) => ended

\* C7: from_file on a path that names no file gives Err, never Ok, on the
\* live-cursor and on the flat-file platforms.
C7_AsStated ==
    (Finished("from_file") /\ ~Exists(call.path)) => IsErr(result)

\* the accounting file holds records with mapped type codes that are pairwise
\* different once normalised
DistinctMapped ==
    /\ \A i \in 1 .. Len(file) : IsOk(From(targetOs, file[i]))
    /\ \A i, j \in 1 .. Len(file) :
         i # j => From(targetOs, file[i]) # From(targetOs, file[j])

\* C8: the flat-file from_file on a file of n whole records (here distinct and
\* of mapped types) and r < record_size further bytes, which keeps its size
\* while it is read, is left with Ok and exactly n entries.
C8_AsStated ==
    ( /\ call.op = "from_file" /\ ~LiveFromFile /\ ~call.short
      /\ pc \in {"idle", "crashed"} /\ result # None
      /\ Exists(call.path) /\ Readable(call.path)
      /\ DistinctMapped )
    => (IsOk(result) /\ len(result[2]) = Len(file))

\* C9: system() enumerates the default database from its first record,
\* whatever calls came before it.
IsPrefix(p, q) == Len(p) <= Len(q) /\ \A i \in 1 .. Len(p) : p[i] = q[i]

C9_AsStated ==
    Finished("system") =>
        /\ IsPrefix(fetched, db)
        /\ IsOk(result) => fetched = db

\* C10: a constructed collection holds exactly the distinct normalised entries
\* of the records fetched, none twice; len() is their number, is_empty() is
\* len() = 0, and nothing fetched gives an empty collection.
Entries(s) == {s[i] : i \in 1 .. Len(s)}
Normalized(raws) == {From(targetOs, raws[k])[2] : k \in 1 .. Len(raws)}

C10_SetSemantics ==
    (pc = "idle" /\ IsOk(result)) =>
        LET s == result[2]
        IN  /\ \A i, j \in 1 .. Len(s) : i # j => s[i] # s[j]
            /\ Entries(s) = Normalized(fetched)
            /\ len(s) = Cardinality(Normalized(fetched))
            /\ is_empty(s) <=> len(s) = 0
            /\ fetched = <<>> => (is_empty(s) /\ len(s) = 0)

C10_Witness ==
    /\ pc = "idle"
    /\ IsOk(result)
    /\ Len(fetched) = 2
    /\ fetched[1] # fetched[2]
    /\ len(result[2]) = 1

\* the source of the last from_file call failed: the cursor was not redirected
\* (glibc tells it by a non-zero result, Apple's library by zero), or the file
\* cannot be opened, or it gave fewer bytes than its size
RedirectFailed ==
    IF targetOs = "macos" THEN call.res = 0 ELSE call.res # 0

SourceFailed ==
    IF LiveFromFile
    THEN RedirectFailed \/ ~(Exists(call.path) /\ Readable(call.path))
    ELSE ~(Exists(call.path) /\ Readable(call.path)) \/ call.short

\* C11: a from_file call whose source failed (redirect, metadata or open,
\* short read) is left with the error alone: no collection, and none of the
\* records read so far, reaches the caller.
C11_AsStated ==
    (Finished("from_file") /\ SourceFailed) =>
        (IsErr(result) /\ set = <<>>)

\* the type code of the raw record has no mapping on the platform
Unmapped(raw) == IsErr(TryFromNum(targetOs, raw.ut_type))

\* C13: while system or from_file builds a collection, a record of unmapped
\* type ends the call at once by a panic: it is the last record fetched, it is
\* not skipped and not inserted under another kind, and no collection is
\* returned.
C13_AbortOnUnmapped ==
    (call.op \in {"system", "from_file"} /\ pc \in {"loop", "flat", "idle"}) =>
        /\ \A i \in 1 .. Len(fetched) - 1 : ~Unmapped(fetched[i])
        /\ (fetched # <<>> /\ Unmapped(fetched[Len(fetched)])) =>
              (pc = "idle" /\ IsPanic(result) /\ set = <<>>)
        /\ IsOk(result) =>
              \A i \in 1 .. Len(fetched) : ~Unmapped(fetched[i])
        /\ \A i \in 1 .. Len(set) :
              \E k \in 1 .. Len(fetched) :
                  /\ ~Unmapped(fetched[k])
                  /\ TryFromNum(targetOs, fetched[k].ut_type) = Ok(set[i].ut_type)

C13_Witness ==
    /\ call.op = "system"
    /\ pc = "idle"
    /\ IsPanic(result)
    /\ Len(db) = 2
    /\ Len(fetched) = 1
    /\ Unmapped(fetched[1])
    /\ ~Unmapped(db[2])

\* C15: the flat-file from_file writes the bytes it reads inside the buffer of
\* floor(file_size / record_size) records, whatever the size of the file: no
\* byte is stored past the allocation (oob counts those that are).
C15_AsStated ==
    (call.op = "from_file" /\ ~LiveFromFile /\ pc \in {"flat", "idle", "crashed"})
        => oob = 0

\* C16: the live-cursor from_file either has the cursor on exactly the path
\* it was given, or returns an error; a path that is not UTF-8 or holds a NUL
\* is no exception.
C16_AsStated ==
    (call.op = "from_file" /\ LiveFromFile /\ pc \in {"loop", "idle"}) =>
        \/ pc = "idle" /\ IsErr(result)
        \/ utName = call.path

----------------------------------------------------------------------------
\* The counters of unexpand_line, in the behaviours of SpecUnexpand

\* the byte the loop took last
LastByte == uLine[uIdx]

\* C14 as the specification states it: a backspace met while the counters are
\* 0, as they are at the first byte of a line, wraps a counter around.
C14_AsStated ==
    (uPc = "loop" /\ uIdx = 1 /\ LastByte = 8) => uWrapped

\* C14, amended: no line makes a counter of unexpand_line leave the range of
\* usize.  `!!x` is x, so a backspace takes each counter from itself: spaces
\* is 0 after it, and column is 0 and then 1 by the `column += 1` that ends
\* the turn, whatever the counters were.
C14_Amended ==
    (uPc \in {"loop", "done"}) =>
        /\ ~uWrapped
        /\ (uIdx > 0 /\ LastByte = 8) => (uSpaces = 0 /\ uColumn = 1)

C14_Witness ==
    /\ uPc = "loop"
    /\ uIdx = 4
    /\ uLine = <<8, 32, 32, 8>>
    /\ uSpaces = 0
    /\ uColumn = 1
    /\ ~uWrapped

----------------------------------------------------------------------------
\* Timestamps of a normalised entry, in the behaviours of SpecNorm

\* the instant s seconds and u microseconds after the Unix epoch
EpochPlus(s, u) ==
    [secs |-> s + (u \div 1000000), micros |-> u % 1000000]

\* C12: timeval() of a normalised entry is the (tv_sec, tv_usec) pair of the
\* raw record, and login_time() is the Unix epoch plus tv_sec seconds plus
\* tv_usec microseconds; (1700000000, 500000) gives 1700000000 s and 500000 us
\* after the epoch, which is 1700000000500000 us.
C12_Timestamps ==
    nStep = "normalized" =>
        /\ timeval(nEntry) = nRaw.ut_tv
        /\ login_time(nEntry) = EpochPlus(nRaw.ut_tv.tv_sec, nRaw.ut_tv.tv_usec)
        /\ (nRaw.ut_tv = [tv_sec |-> 1700000000, tv_usec |-> 500000]) =>
              login_time(nEntry) = [secs |-> 1700000000, micros |-> 500000]

C12_Witness ==
    /\ nStep = "normalized"
    /\ nRaw.ut_tv = [tv_sec |-> 1700000000, tv_usec |-> 500000]
    /\ timeval(nEntry) = [tv_sec |-> 1700000000, tv_usec |-> 500000]
    /\ login_time(nEntry) = [secs |-> 1700000000, micros |-> 500000]

====
